---- MODULE Spec2Model ----
(***************************************************************************)
(* A model of the mempool allocator (mempool.c): mpool_init, mpool_alloc,  *)
(* mpool_repool and mpool_free over an abstract address space.             *)
(*                                                                         *)
(* Addresses.  Every successful mmap yields a fresh arena, numbered in     *)
(* mapping order.  A chunk is [a |-> arena, k |-> index of the chunk in    *)
(* the arena]; its address is the arena's base plus k times the arena's    *)
(* chunk size.  The pointer handed to the caller is the chunk's address    *)
(* plus HEADER_SIZE, so a caller's pointer is identified with its chunk.   *)
(*                                                                         *)
(* Memory.  Only the first machine word of a chunk is modelled: it is the  *)
(* free-list link while the chunk is free and its low four bytes are the   *)
(* size header once the chunk is handed out.                               *)
(***************************************************************************)
EXTENDS Integers, Sequences, FiniteSets, TLC

(***************************************************************************)
(* Bounds of the exploration.                                              *)
(***************************************************************************)
MaxOps == 4
MaxFail == 1
MaxHeld == 3
\* the longer runs of SpecDeep: more calls in a run, no OS or libc failure
MaxDeepOps == 9

(***************************************************************************)
(* Program constants.                                                      *)
(***************************************************************************)
PAGE_SIZE == 4096
FASTBIN_SIZE == 7
HEADER_SIZE == 4
WORD_SIZE == 8

(***************************************************************************)
(* Configurations (min2, max2) given to mpool_init and, per configuration, *)
(* the request sizes the caller draws from.                                *)
(***************************************************************************)
Configs == { <<3, 12>>, <<4, 8>>, <<11, 12>> }
DeepConfigs == { <<3, 7>> }

SizesFor(cfg) ==
  CASE cfg = <<3, 12>>  -> {1, 10, 40, 4092, 5000}
    [] cfg = <<4, 8>>   -> {8, 40, 100}
    [] cfg = <<11, 12>> -> {100, 3000, 5000}
    [] cfg = <<3, 7>>   -> {1, 10, 100}
    [] OTHER            -> {10}

RECURSIVE Pow2(_)
Pow2(n) == IF n <= 0 THEN 1 ELSE 2 * Pow2(n - 1)

(***************************************************************************)
(* Pointers.                                                               *)
(***************************************************************************)
NULL == [a |-> 0, k |-> 0]
\* a pointer whose bits were partly overwritten: it addresses no chunk
WILD == [a |-> -1, k |-> 0]
\* a non-null pointer whose value is a small integer (at most a class size)
WILDLOW == [a |-> -2, k |-> 0]
Chunk(a, k) == [a |-> a, k |-> k]

\* the first word of a chunk read as a free-list link / as a size header
LinkWord(c) == [t |-> "link", to |-> c, v |-> 0]
HdrWord(n) == [t |-> "hdr", to |-> NULL, v |-> n]

(***************************************************************************)
(* iceil2: base-2 integer ceiling by bit smearing.  The argument is the    *)
(* class count, 1 <= x < 2^30, so the unsigned 32-bit arithmetic of the C  *)
(* code never wraps.                                                       *)
(***************************************************************************)
RECURSIVE Shr(_, _)
Shr(x, n) == IF n = 0 THEN x ELSE Shr(x \div 2, n - 1)

RECURSIVE BitOr(_, _)
BitOr(x, y) ==
  IF x = 0 THEN y
  ELSE IF y = 0 THEN x
  ELSE (IF (x % 2 = 1) \/ (y % 2 = 1) THEN 1 ELSE 0) + 2 * BitOr(x \div 2, y \div 2)

iceil2(x0) ==
  LET x1 == x0 - 1
      x2 == BitOr(x1, Shr(x1, 1))
      x3 == BitOr(x2, Shr(x2, 2))
      x4 == BitOr(x3, Shr(x3, 4))
      x5 == BitOr(x4, Shr(x4, 8))
      x6 == BitOr(x5, Shr(x5, 16))
  IN  x6 + 1

(***************************************************************************)
(* Size-class selection of mpool_alloc: the loop                           *)
(*   for (i = 0, p = min_pool;; i++, p *= 2) if (p > sz) break;            *)
(* run on the request r (header included).                                 *)
(***************************************************************************)
\* the loop with the request narrowed to its low five bits in the comparison
RECURSIVE ClassLoopNarrow(_, _, _)
ClassLoopNarrow(i, p, r) ==
  IF p > r % 32 THEN [i |-> i, szceil |-> p] ELSE ClassLoopNarrow(i + 1, p * 2, r)

RECURSIVE ClassLoop(_, _, _)
ClassLoop(i, p, r) ==
  IF p > r THEN [i |-> i, szceil |-> p] ELSE ClassLoop(i + 1, p * 2, r)

ClassOf(minPool, r) == ClassLoop(0, minPool, r)

(***************************************************************************)
(* Class index of mpool_repool: i = (chunk_size >> 4) - 1.                 *)
(***************************************************************************)
RepoolIndex(chunk_size) == Shr(chunk_size, 4) - 1


(***************************************************************************)
(* State.                                                                  *)
(*   cfg                 the (min2, max2) given to mpool_init              *)
(*   cnt, pal, min_pool, max_pool, ps, sizes, fastbin, hs                  *)
(*                       the fields of struct __mpool; ps is the id of the *)
(*                       malloc block mp->ps points to, sizes is           *)
(*                       [id, c]: the malloc block mp->sizes points to, or *)
(*                       (id = 0) the chunk c it points into               *)
(*   heap                the malloc blocks, by id: [live, cap, data]       *)
(*   mpLive              the allocator record itself has not been freed    *)
(*   arenas              every mapping made so far, in mmap order          *)
(*   mem                 first word of every chunk written since mapping   *)
(*   held                pointers the caller holds: [c, req]               *)
(*   unmaps              the munmap calls made so far: [a, k, len, by]     *)
(*   status              "live", "torn" (after mpool_free), "aborted"      *)
(*                       (an assert failed or libc aborted), "crashed"     *)
(*                       (a wild pointer was dereferenced)                 *)
(*   hist                the last operations, newest last: the call, its   *)
(*                       result, the mappings it made (maps) and the OS    *)
(*                       or libc calls that failed in it (fp)              *)
(*   nops, nfail         operations run, OS/libc failures injected         *)
(***************************************************************************)
VARIABLES cfg, cnt, pal, min_pool, max_pool, ps, sizes, fastbin, hs,
          heap, mpLive, arenas, mem, held, unmaps, status, hist, nops, nfail

vars == <<cfg, cnt, pal, min_pool, max_pool, ps, sizes, fastbin, hs,
          heap, mpLive, arenas, mem, held, unmaps, status, hist, nops, nfail>>

HistLen == 3

\* a malloc block of cap entries, all zero (memset in mpool_init)
ZeroBlock(cap) == [live |-> TRUE, cap |-> cap, data |-> [j \in 0..(cap - 1) |-> 0]]

HeapPtr(id) == [id |-> id, c |-> NULL]
ChunkPtr(c) == [id |-> 0, c |-> c]

(***************************************************************************)
(* mpool_init(min2, max2), under its asserts min2 >= 3 and cnt > 0.        *)
(***************************************************************************)
mpool_init(min2, max2) ==
  LET c0 == max2 - min2 + 1
      palen == iceil2(c0)
  IN  /\ cfg = <<min2, max2>>
      /\ cnt = c0
      /\ pal = palen
      /\ min_pool = Pow2(min2)
      /\ max_pool = Pow2(max2)
      /\ heap = <<ZeroBlock(palen), ZeroBlock(palen)>>
      /\ ps = 1
      /\ sizes = HeapPtr(2)
      /\ fastbin = [j \in 0..(FASTBIN_SIZE - 1) |-> NULL]
      /\ hs = [j \in 0..(c0 - 1) |-> NULL]
      /\ mpLive = TRUE

Init ==
  /\ \E c \in Configs : mpool_init(c[1], c[2])
  /\ arenas = << >>
  /\ mem = << >>
  /\ held = {}
  /\ unmaps = << >>
  /\ status = "live"
  /\ hist = << >>
  /\ nops = 0
  /\ nfail = 0

(***************************************************************************)
(* Reading memory.                                                         *)
(***************************************************************************)
IsChunk(ar, c) ==
  /\ c.a \in 1..Len(ar)
  /\ ar[c.a].mapped
  /\ c.k \in 0..(ar[c.a].n - 1)

\* the word mpool_new_pool left in chunk c: the address of the next cell,
\* NULL in the last one
FreshWord(ar, c) ==
  LinkWord(IF c.k + 1 < ar[c.a].n THEN Chunk(c.a, c.k + 1) ELSE NULL)

Word(ar, m, c) == IF c \in DOMAIN m THEN m[c] ELSE FreshWord(ar, c)

\* *cur read as void*: a header or clobbered word read as a pointer is wild
Deref(ar, m, c) ==
  LET w == Word(ar, m, c) IN IF w.t = "link" THEN w.to ELSE WILD

SetWord(m, c, w) == [x \in (DOMAIN m) \cup {c} |-> IF x = c THEN w ELSE m[x]]

Push(h, rec) == IF Len(h) < HistLen THEN Append(h, rec) ELSE Append(Tail(h), rec)


(***************************************************************************)
(* The allocator's mutable state as one record, so that the statements of  *)
(* a C function can be applied one after the other.  maps counts the       *)
(* mappings made by the running call.                                      *)
(***************************************************************************)
Cur ==
  [status |-> status, cnt |-> cnt, pal |-> pal, ps |-> ps, sizes |-> sizes,
   fastbin |-> fastbin, hs |-> hs, heap |-> heap, arenas |-> arenas,
   mem |-> mem, unmaps |-> unmaps, nfail |-> nfail, maps |-> 0, used |-> {}]

\* what the OS and libc may do during one call: the calls that fail, the
\* reallocs that move their block, and how an access the C standard leaves
\* undefined (out of bounds, freed block) turns out.  used collects the
\* choices a call consulted; Canonical leaves the others at their default,
\* so that no outcome is produced twice.
FailPoints == {"mmap1", "mmap2", "ps", "sizes"}
OpsBound == IF cfg \in DeepConfigs THEN MaxDeepOps ELSE MaxOps
FailBound == IF cfg \in DeepConfigs THEN 0 ELSE MaxFail
Choices ==
  { [fails |-> f, moves |-> m, ub |-> u] :
      f \in { x \in SUBSET FailPoints : Cardinality(x) <= FailBound - nfail },
      m \in SUBSET {"ps", "sizes"},
      u \in {"silent", "crash"} }

MoveTag(tag) == IF tag = "ps" THEN "move_ps" ELSE "move_sizes"

Canonical(S, f) ==
  /\ f.fails \subseteq S.used
  /\ \A m \in f.moves : MoveTag(m) \in S.used
  /\ f.ub = "crash" => "ub" \in S.used

RoundToPage(n) == ((n + PAGE_SIZE - 1) \div PAGE_SIZE) * PAGE_SIZE

(***************************************************************************)
(* The code runs statement after statement on the allocator's state; here  *)
(* each group of statements is an operator that takes the state (or the    *)
(* result of the call before it) and passes its own result on to the       *)
(* operator for the statements that follow.                                *)
(*                                                                         *)
(* get_mmap(sz): a fresh anonymous mapping, or NULL (arena 0).             *)
(* kind, csz and n describe the chunks the caller will carve from it.      *)
(***************************************************************************)
get_mmap(S, kind, csz, n, len, tag, f) ==
  IF tag \notin f.fails
  THEN [s |-> [S EXCEPT !.arenas = Append(@, [kind |-> kind, sz |-> csz, n |-> n,
                                                 len |-> len, mapped |-> TRUE]),
                        !.maps = @ + 1, !.used = @ \cup {tag}],
        a |-> Len(S.arenas) + 1]
  ELSE [s |-> [S EXCEPT !.nfail = @ + 1, !.used = @ \cup {tag}], a |-> 0]

(***************************************************************************)
(* mpool_new_pool(sz, total_sz): maps max(sz, total_sz) bytes and threads  *)
(* total_sz / sz cells into a list (one cell holding NULL when the         *)
(* quotient is 0).  The links are FreshWord.  Result p is the first cell.  *)
(***************************************************************************)
NewPoolMapped(g, sz) ==
  IF g.a = 0 THEN [s |-> g.s, p |-> NULL]
  ELSE IF ~(sz > WORD_SIZE)                           \* assert(sz > sizeof(void *))
  THEN [s |-> [g.s EXCEPT !.status = "aborted"], p |-> NULL]
  ELSE [s |-> g.s, p |-> Chunk(g.a, 0)]

\* the cells threaded when the loop bound is taken inclusive (i <= lim)
CellCountInclusive(sz, total_sz) == total_sz \div sz + 1

\* int lim = (total_sz / sz); for (i = 0; i < lim; i++) ...; pool[o] = NULL;
CellCount(sz, total_sz) == IF total_sz \div sz = 0 THEN 1 ELSE total_sz \div sz

mpool_new_pool(S, sz, total_sz, tag, f) ==
  NewPoolMapped(get_mmap(S, "pool", sz, CellCount(sz, total_sz),
                         IF sz > total_sz THEN sz ELSE total_sz, tag, f),
                sz)

(***************************************************************************)
(* A store through mp->sizes after mpool_repool redirected it into chunk   *)
(* X (fastbin[-1] is the sizes field): sizes[idx] is the int at byte       *)
(* 4*idx of X and lands in X, in a neighbour of X in the same arena, or    *)
(* outside the mapping.  Overwriting half of a link leaves a wild pointer. *)
(***************************************************************************)
ClobberWord(S, Y, d, w, val) ==
  IF d = 0 /\ w.t = "hdr"
  THEN [S EXCEPT !.mem = SetWord(@, Y, HdrWord(val))]
  ELSE IF d = 0 /\ w.t = "link"
  THEN [S EXCEPT !.mem = SetWord(@, Y, LinkWord(IF w.to = NULL /\ val <= PAGE_SIZE
                                                  THEN WILDLOW ELSE WILD))]
  ELSE IF d = 4 /\ w.t = "link"
  THEN [S EXCEPT !.mem = SetWord(@, Y, LinkWord(WILD))]
  ELSE S

StoreAtOffset(S, X, ar, off, val) ==
  IF (~ar.mapped) \/ off + 4 > RoundToPage(ar.len)
  THEN [S EXCEPT !.status = "crashed"]
  ELSE IF off \div ar.sz >= ar.n THEN S
  ELSE ClobberWord(S, Chunk(X.a, off \div ar.sz), off % ar.sz,
                   Word(S.arenas, S.mem, Chunk(X.a, off \div ar.sz)), val)

StoreIntoChunk(S, X, idx, val) ==
  StoreAtOffset(S, X, S.arenas[X.a], X.k * S.arenas[X.a].sz + 4 * idx, val)

\* d with d[idx] = val, idx added to its domain when it is outside
SetAt(d, idx, val) == [x \in (DOMAIN d) \cup {idx} |-> IF x = idx THEN val ELSE d[x]]

\* mp->ps[idx] = val / mp->sizes[idx] = val.  A store past the end of the
\* block or into a freed block is undefined: it lands there, or crashes.
StoreBlock(S, id, idx, val, ub) ==
  IF idx < S.heap[id].cap /\ S.heap[id].live
  THEN [S EXCEPT !.heap[id].data[idx] = val]
  ELSE IF ub = "crash" THEN [S EXCEPT !.status = "crashed", !.used = @ \cup {"ub"}]
  ELSE [S EXCEPT !.heap[id].data = SetAt(@, idx, val), !.used = @ \cup {"ub"}]

\* mp->ps[idx] / mp->sizes[idx] read: [s, v]
LoadBlock(S, id, idx, ub) ==
  IF idx < S.heap[id].cap /\ S.heap[id].live THEN [s |-> S, v |-> S.heap[id].data[idx]]
  ELSE IF ub = "crash"
  THEN [s |-> [S EXCEPT !.status = "crashed", !.used = @ \cup {"ub"}], v |-> 0]
  ELSE [s |-> [S EXCEPT !.used = @ \cup {"ub"}],
        v |-> IF idx \in DOMAIN S.heap[id].data THEN S.heap[id].data[idx] ELSE 0]

StorePs(S, idx, val, ub) == StoreBlock(S, S.ps, idx, val, ub)

StoreSizes(S, idx, val, ub) ==
  IF S.sizes.id > 0 THEN StoreBlock(S, S.sizes.id, idx, val, ub)
  ELSE StoreIntoChunk(S, S.sizes.c, idx, val)

(***************************************************************************)
(* realloc(block id, ncap): NULL (0), the same block grown in place, or a  *)
(* new block holding a copy, the old one freed.                            *)
(***************************************************************************)
Grown(b, ncap) ==
  [live |-> TRUE, cap |-> ncap,
   data |-> [j \in 0..(ncap - 1) |-> IF j < b.cap THEN b.data[j] ELSE 0]]

realloc(S, id, ncap, tag, f) ==
  IF tag \in f.fails
  THEN [s |-> [S EXCEPT !.nfail = @ + 1, !.used = @ \cup {tag}], id |-> 0]
  ELSE IF tag \in f.moves
  THEN [s |-> [S EXCEPT !.heap = Append([@ EXCEPT ![id].live = FALSE],
                                        Grown(S.heap[id], ncap)),
                        !.used = @ \cup {tag, MoveTag(tag)}],
        id |-> Len(S.heap) + 1]
  ELSE [s |-> [S EXCEPT !.heap[id] = Grown(S.heap[id], ncap),
                        !.used = @ \cup {tag, MoveTag(tag)}],
        id |-> id]

(***************************************************************************)
(* add_pool(mp, p, sz): [s, rc] with rc 0 or -1.                           *)
(* realloc of a pointer that is not a live malloc block (mp->ps left       *)
(* dangling by an earlier failed growth, mp->sizes pointing into a chunk)  *)
(* is undefined: libc aborts, or the process crashes.                      *)
(***************************************************************************)
\* if (!nps || !nsizes) return -1; mp->sizes = nsizes; mp->ps = nps;
GrowInstall(r1, r2) ==
  IF r1.id = 0 \/ r2.id = 0 THEN [s |-> r2.s, rc |-> -1]
  ELSE [s |-> [r2.s EXCEPT !.sizes = HeapPtr(r2.id), !.ps = r1.id], rc |-> 0]

\* void *nsizes = realloc(mp->sizes, mp->pal * sizeof(int *));
GrowSizes(r1, sizesId, f) ==
  GrowInstall(r1, realloc(r1.s, sizesId, r1.s.pal, "sizes", f))

\* mp->pal *= 2; void **nps = realloc(mp->ps, mp->pal * sizeof(void **));
GrowRegistry(S, f) ==
  IF (~S.heap[S.ps].live) \/ S.sizes.id = 0 \/ ~S.heap[S.sizes.id].live
  THEN [s |-> [S EXCEPT !.pal = @ * 2, !.used = @ \cup {"ub"},
                        !.status = IF f.ub = "crash" THEN "crashed" ELSE "aborted"],
        rc |-> -1]
  ELSE GrowSizes(realloc([S EXCEPT !.pal = @ * 2], S.ps, S.pal * 2, "ps", f),
                 S.sizes.id, f)

\* mp->cnt++; return 0;
AppendDone(S) ==
  IF S.status # "live" THEN [s |-> S, rc |-> -1]
  ELSE [s |-> [S EXCEPT !.cnt = @ + 1], rc |-> 0]

\* mp->sizes[mp->cnt] = sz;
AppendSizes(S, idx, sz, f) ==
  IF S.status # "live" THEN [s |-> S, rc |-> -1]
  ELSE AppendDone(StoreSizes(S, idx, sz, f.ub))

\* mp->ps[mp->cnt] = p;
AppendPool(g, p, sz, f) ==
  IF g.rc < 0 THEN g
  ELSE AppendSizes(StorePs(g.s, g.s.cnt, p.a, f.ub), g.s.cnt, sz, f)

add_pool(S, p, sz, f) ==
  AppendPool(IF S.cnt = S.pal THEN GrowRegistry(S, f) ELSE [s |-> S, rc |-> 0], p, sz, f)

(***************************************************************************)
(* mpool_alloc(mp, sz).  Each part yields                                  *)
(*   [s, ret, via, i, szceil]: the state after the call, the chunk whose   *)
(*   payload is returned (NULL on failure), the path taken, and the class  *)
(*   index and class size chosen (i = -1 for a direct mapping).            *)
(***************************************************************************)
IsWild(c) == c = WILD \/ c = WILDLOW

Ret(S, ret, via, i, szceil) ==
  [s |-> S, ret |-> ret, via |-> via, i |-> i, szceil |-> szceil]

\* a NULL return: an OS or libc failure, or the process has stopped
RetNull(S, i, szceil) ==
  Ret(S, NULL, IF S.status = "live" THEN "fail" ELSE "abort", i, szceil)

\* _done: *tmp = szceil; return tmp + 1
Done(S, cur, via, i, szceil) ==
  Ret([S EXCEPT !.mem = SetWord(@, cur, HdrWord(szceil))], cur, via, i, szceil)

\* if (sz >= mp->max_pool): just mmap it
DirectMapped(g, r) ==
  IF g.a = 0 THEN RetNull(g.s, -1, r)
  ELSE Done(g.s, Chunk(g.a, 0), "direct", -1, r)

AllocDirect(S, r, f) == DirectMapped(get_mmap(S, "direct", r, 1, r, "mmap1", f), r)

\* if (i < FASTBIN_SIZE) { cur = mp->fastbin[i]; if (cur) ... }
AllocFastbin(S, i, szceil) ==
  IF IsWild(S.fastbin[i])
  THEN Ret([S EXCEPT !.status = "crashed"], NULL, "crash", i, szceil)
  ELSE Done([S EXCEPT !.fastbin[i] = Deref(S.arenas, S.mem, S.fastbin[i])],
            S.fastbin[i], "fastbin", i, szceil)

\* assert(*cur > PAGE_SIZE); mp->hs[i] = *cur; _done
Advance(ap, cur, i, szceil) ==
  IF ap.rc < 0 THEN RetNull(ap.s, i, szceil)
  ELSE IF Deref(ap.s.arenas, ap.s.mem, cur) = WILDLOW
  THEN Ret([ap.s EXCEPT !.status = "aborted"], NULL, "abort", i, szceil)
  ELSE Done([ap.s EXCEPT !.hs[i] = Deref(ap.s.arenas, ap.s.mem, cur)],
            cur, "pool", i, szceil)

\* *cur = &np[0]; if (add_pool(mp, np, szceil) < 0) return NULL;
AttachPage(np, cur, i, szceil, f) ==
  IF np.p = NULL THEN RetNull(np.s, i, szceil)
  ELSE Advance(add_pool([np.s EXCEPT !.mem = SetWord(@, cur, LinkWord(np.p))],
                        np.p, szceil, f),
               cur, i, szceil)

\* if (!(*cur)) { attach to a new page }
AllocAdvance(S, cur, i, szceil, f) ==
  IF S.status # "live" THEN Ret(S, NULL, "crash", i, szceil)
  ELSE IF IsWild(cur) THEN Ret([S EXCEPT !.status = "crashed"], NULL, "crash", i, szceil)
  ELSE IF Deref(S.arenas, S.mem, cur) = NULL
  THEN AttachPage(mpool_new_pool(S, szceil, PAGE_SIZE, "mmap2", f), cur, i, szceil, f)
  ELSE Advance([s |-> S, rc |-> 0], cur, i, szceil)

\* mp->sizes[i] = szceil; cur = mp->hs[i];
LazySizes(S, p, i, szceil, f) ==
  IF S.status # "live" THEN Ret(S, NULL, "crash", i, szceil)
  ELSE AllocAdvance(StoreSizes(S, i, szceil, f.ub), p, i, szceil, f)

\* mp->ps[i] = mp->hs[i] = pool;
LazyPool(np, i, szceil, f) ==
  IF np.p = NULL THEN RetNull(np.s, i, szceil)
  ELSE LazySizes(StorePs([np.s EXCEPT !.hs[i] = np.p], i, np.p.a, f.ub),
                 np.p, i, szceil, f)

\* cur = mp->hs[i]; if (!cur) { lazily allocate and initialize pool }
AllocPool(S, i, szceil, f) ==
  IF S.hs[i] # NULL THEN AllocAdvance(S, S.hs[i], i, szceil, f)
  ELSE LazyPool(mpool_new_pool(S, szceil, PAGE_SIZE, "mmap1", f), i, szceil, f)

AllocClass(S, cl, f) ==
  IF cl.i < FASTBIN_SIZE /\ S.fastbin[cl.i] # NULL
  THEN AllocFastbin(S, cl.i, cl.szceil)
  ELSE AllocPool(S, cl.i, cl.szceil, f)

mpool_alloc(S, sz, f) ==
  IF sz + HEADER_SIZE >= max_pool THEN AllocDirect(S, sz + HEADER_SIZE, f)
  ELSE AllocClass(S, ClassOf(min_pool, sz + HEADER_SIZE), f)

\* the allocator's variables after a call that ends in state S
Commit(S) ==
  /\ status' = S.status
  /\ cnt' = S.cnt
  /\ pal' = S.pal
  /\ ps' = S.ps
  /\ sizes' = S.sizes
  /\ fastbin' = S.fastbin
  /\ hs' = S.hs
  /\ heap' = S.heap
  /\ arenas' = S.arenas
  /\ mem' = S.mem
  /\ unmaps' = S.unmaps
  /\ nfail' = S.nfail
  /\ UNCHANGED <<cfg, min_pool, max_pool>>

AllocReturn(R, sz, f) ==
  /\ Canonical(R.s, f)
  /\ Commit(R.s)
  /\ held' = IF R.ret = NULL THEN held ELSE held \cup {[c |-> R.ret, req |-> sz]}
  /\ hist' = Push(hist, [op |-> "alloc", sz |-> sz, c |-> R.ret, via |-> R.via,
                         i |-> R.i, size |-> R.szceil, maps |-> R.s.maps,
                         fp |-> f.fails])

Alloc ==
  /\ status = "live"
  /\ nops < OpsBound
  /\ Cardinality(held) < MaxHeld
  /\ \E sz \in SizesFor(cfg), f \in Choices : AllocReturn(mpool_alloc(Cur, sz, f), sz, f)
  /\ nops' = nops + 1
  /\ UNCHANGED mpLive

(***************************************************************************)
(* mpool_repool(mp, p): [s, via, i, size].                                 *)
(* With chunk_size < 16 the index is -1 and mp->fastbin[-1] is the field   *)
(* laid out just before fastbin in struct __mpool, which is sizes: the     *)
(* chunk receives the old value of mp->sizes as its link and mp->sizes     *)
(* is left pointing at the chunk.  The access is undefined, so the build   *)
(* may also fault on it.                                                   *)
(***************************************************************************)
RepoolRet(S, via, i, chunk_size) == [s |-> S, via |-> via, i |-> i, size |-> chunk_size]

RepoolSized(S, c, chunk_size, i, ub) ==
  IF chunk_size > max_pool
  THEN RepoolRet([S EXCEPT !.arenas[c.a].mapped = FALSE,
                           !.unmaps = Append(@, [a |-> c.a, k |-> c.k, len |-> chunk_size,
                                                 by |-> "repool"])],
                 "munmap", -1, chunk_size)
  ELSE IF i < 0
  THEN IF ub = "crash"
       THEN RepoolRet([S EXCEPT !.status = "crashed", !.used = @ \cup {"ub"}],
                      "neg", i, chunk_size)
       ELSE RepoolRet([S EXCEPT !.mem = SetWord(@, c, LinkWord(WILD)),
                                !.sizes = ChunkPtr(c), !.used = @ \cup {"ub"}],
                      "neg", i, chunk_size)
  ELSE IF i < FASTBIN_SIZE
  THEN RepoolRet([S EXCEPT !.mem = SetWord(@, c, LinkWord(S.fastbin[i])),
                           !.fastbin[i] = c], "fastbin", i, chunk_size)
  ELSE RepoolRet([S EXCEPT !.mem = SetWord(@, c, LinkWord(S.hs[0])),
                           !.hs[0] = c], "pool", 0, chunk_size)

mpool_repool(S, c, ub) ==
  RepoolSized(S, c, Word(S.arenas, S.mem, c).v,
              RepoolIndex(Word(S.arenas, S.mem, c).v), ub)

RepoolReturn(R, h, u) ==
  /\ Canonical(R.s, [fails |-> {}, moves |-> {}, ub |-> u])
  /\ Commit(R.s)
  /\ held' = held \ {h}
  /\ hist' = Push(hist, [op |-> "repool", sz |-> h.req, c |-> h.c, via |-> R.via,
                         i |-> R.i, size |-> R.size, maps |-> 0, fp |-> {}])

Repool ==
  /\ status = "live"
  /\ nops < OpsBound
  /\ \E h \in held, u \in {"silent", "crash"} : RepoolReturn(mpool_repool(Cur, h.c, u), h, u)
  /\ nops' = nops + 1
  /\ UNCHANGED mpLive

(***************************************************************************)
(* mpool_free(mp).  gv is the value an int read from chunk memory that is  *)
(* not a header turns out to be.                                           *)
(***************************************************************************)
GarbageInts == {-1, 24, 21845}

\* the int at byte off of chunk X's arena: [s, v]
LoadAtOffset(S, X, ar, off, gv) ==
  IF (~ar.mapped) \/ off + 4 > RoundToPage(ar.len)
  THEN [s |-> [S EXCEPT !.status = "crashed"], v |-> 0]
  ELSE IF off \div ar.sz < ar.n /\ off % ar.sz = 0
          /\ Word(S.arenas, S.mem, Chunk(X.a, off \div ar.sz)).t = "hdr"
  THEN [s |-> S, v |-> Word(S.arenas, S.mem, Chunk(X.a, off \div ar.sz)).v]
  ELSE [s |-> [S EXCEPT !.used = @ \cup {"gv"}], v |-> gv]

\* mp->sizes[idx] read: [s, v]
LoadSizes(S, idx, gv, ub) ==
  IF S.sizes.id > 0 THEN LoadBlock(S, S.sizes.id, idx, ub)
  ELSE LoadAtOffset(S, S.sizes.c, S.arenas[S.sizes.c.a],
                    S.sizes.c.k * S.arenas[S.sizes.c.a].sz + 4 * idx, gv)

\* munmap(mp->ps[i], sz) of the loop body
Unmap(S, a, len) ==
  [S EXCEPT !.arenas = IF a \in 1..Len(@) THEN [@ EXCEPT ![a].mapped = FALSE] ELSE @,
            !.unmaps = Append(@, [a |-> a, k |-> 0, len |-> len, by |-> "free"])]

RECURSIVE FreeLoop(_, _, _, _)
RECURSIVE FreeEntry(_, _, _, _)
RECURSIVE FreeUnmap(_, _, _, _, _)

\* long sz = mp->sizes[i]; assert(sz > 0); if (sz < PAGE_SIZE) sz = PAGE_SIZE; munmap
FreeUnmap(ls, a, i, gv, ub) ==
  IF ls.s.status # "live" THEN ls.s
  ELSE IF ~(ls.v > 0) THEN [ls.s EXCEPT !.status = "aborted"]
  ELSE FreeLoop(Unmap(ls.s, a, IF ls.v < PAGE_SIZE THEN PAGE_SIZE ELSE ls.v), i + 1, gv, ub)

\* void *p = mp->ps[i]; if (!p) continue;
FreeEntry(lp, i, gv, ub) ==
  IF lp.s.status # "live" THEN lp.s
  ELSE IF lp.v = 0 THEN FreeLoop(lp.s, i + 1, gv, ub)
  ELSE FreeUnmap(LoadSizes(lp.s, i, gv, ub), lp.v, i, gv, ub)

\* for (long i = 0; i < mp->cnt; i++)
FreeLoop(S, i, gv, ub) ==
  IF i >= S.cnt \/ S.status # "live" THEN S
  ELSE FreeEntry(LoadBlock(S, S.ps, i, ub), i, gv, ub)

\* free(mp->ps); free(mp): freeing a block realloc already freed is
\* undefined: libc aborts, or it goes unnoticed
FreeBlocks(S, ub) ==
  IF S.status # "live" THEN S
  ELSE IF ~S.heap[S.ps].live
  THEN [S EXCEPT !.status = IF ub = "crash" THEN "aborted" ELSE "torn",
                 !.used = @ \cup {"ub"}]
  ELSE [S EXCEPT !.heap[S.ps].live = FALSE, !.status = "torn"]

mpool_free(S, gv, ub) == FreeBlocks(FreeLoop(S, 0, gv, ub), ub)

FreeReturn(S, gv, u) ==
  /\ Canonical(S, [fails |-> {}, moves |-> {}, ub |-> u])
  /\ (gv # 24 => "gv" \in S.used)
  /\ Commit(S)
  /\ mpLive' = (S.status # "torn")

Free ==
  /\ status = "live"
  /\ \E gv \in GarbageInts, u \in {"silent", "crash"} : FreeReturn(mpool_free(Cur, gv, u), gv, u)
  /\ hist' = Push(hist, [op |-> "free", sz |-> 0, c |-> NULL, via |-> "free",
                         i |-> -1, size |-> 0, maps |-> 0, fp |-> {}])
  /\ nops' = nops + 1
  /\ UNCHANGED held

Next ==
  \/ Alloc
  \/ Repool
  \/ Free

Spec == Init /\ [][Next]_vars

(***************************************************************************)
(* The same operations in longer runs of one configuration.                *)
(***************************************************************************)
InitDeep ==
  /\ \E c \in DeepConfigs : mpool_init(c[1], c[2])
  /\ arenas = << >>
  /\ mem = << >>
  /\ held = {}
  /\ unmaps = << >>
  /\ status = "live"
  /\ hist = << >>
  /\ nops = 0
  /\ nfail = 0

SpecDeep == InitDeep /\ [][Next]_vars


(***************************************************************************)
(* Size-class selection on its own: mpool_init with a configuration of     *)
(* ClassConfigs, then the class computation of mpool_alloc applied to two  *)
(* request sizes s1 <= s2 of 0..MaxReq; hist holds the two results.        *)
(***************************************************************************)
MaxReq == 70
ClassConfigs == { <<3, 5>>, <<3, 6>>, <<4, 6>>, <<5, 6>> }

ClassRec(sz) ==
  LET r == sz + HEADER_SIZE
      cl == ClassOf(min_pool, r)
  IN  IF r >= max_pool
      THEN [op |-> "class", sz |-> sz, c |-> NULL, via |-> "direct",
            i |-> -1, size |-> r, maps |-> 0, fp |-> {}]
      ELSE [op |-> "class", sz |-> sz, c |-> NULL, via |-> "pool",
            i |-> cl.i, size |-> cl.szceil, maps |-> 0, fp |-> {}]

InitClass ==
  /\ \E c \in ClassConfigs : mpool_init(c[1], c[2])
  /\ arenas = << >>
  /\ mem = << >>
  /\ held = {}
  /\ unmaps = << >>
  /\ status = "live"
  /\ hist = << >>
  /\ nops = 0
  /\ nfail = 0

ClassStep ==
  /\ hist = << >>
  /\ \E s1 \in 0..MaxReq, s2 \in 0..MaxReq :
       /\ s1 <= s2
       /\ hist' = <<ClassRec(s1), ClassRec(s2)>>
  /\ UNCHANGED <<cfg, cnt, pal, min_pool, max_pool, ps, sizes, fastbin, hs,
                 heap, mpLive, arenas, mem, held, unmaps, status, nops, nfail>>

NextClass == ClassStep

SpecClass == InitClass /\ [][NextClass]_vars

\* the class sizes minPool * 2^k
ClassSizes(minPool) == { minPool * Pow2(k) : k \in 0..12 }

\* the smallest class size >= r and its doubling count
SmallestClass(minPool, r) ==
  CHOOSE p \in ClassSizes(minPool) :
    p >= r /\ \A q \in ClassSizes(minPool) : q >= r => p <= q

DoublingCount(minPool, p) == CHOOSE k \in 0..12 : minPool * Pow2(k) = p

(***************************************************************************)
(* C7.  Size-class selection: for every request r = size + 4 below         *)
(* max_pool the class size chosen is the smallest minPool * 2^k >= r and   *)
(* the class index is k; a request equal to a class size is served from    *)
(* that class.                                                             *)
(***************************************************************************)
C7_SmallestClassAtLeastRequest ==
  \A j \in DOMAIN hist :
    (hist[j].op = "class" /\ hist[j].via = "pool") =>
      LET r == hist[j].sz + HEADER_SIZE
          p == SmallestClass(min_pool, r)
      IN  hist[j].size = p /\ hist[j].i = DoublingCount(min_pool, p)

(***************************************************************************)
(* C8.  Class monotonicity: for sizes s1 <= s2 whose requests are both     *)
(* below max_pool, the class size chosen for s1 is at most the class size  *)
(* chosen for s2.                                                          *)
(***************************************************************************)
C8_ClassMonotone ==
  (Len(hist) = 2 /\ hist[1].op = "class" /\ hist[1].via = "pool" /\ hist[2].via = "pool") =>
    (hist[1].sz <= hist[2].sz => hist[1].size <= hist[2].size)

\* two requests of different classes, both pooled, have been classified
C8_Witness ==
  /\ Len(hist) = 2 /\ hist[1].op = "class"
  /\ hist[1].via = "pool" /\ hist[2].via = "pool"
  /\ hist[1].sz < hist[2].sz
  /\ hist[1].size < hist[2].size


(***************************************************************************)
(* Free lists as the code can walk them.  A list is followed from its head *)
(* through the first words of the chunks; a run of chunks still holding    *)
(* the links mpool_new_pool wrote is taken in one step, as a segment       *)
(* [a, lo, hi] of consecutive chunks of arena a.                           *)
(***************************************************************************)
MaxWalk == 40

\* the first index above c.k in c's arena whose chunk has been written
NextTouched(ar, m, c) ==
  LET T == { k \in (c.k + 1)..(ar[c.a].n - 1) : Chunk(c.a, k) \in DOMAIN m }
  IN  IF T = {} THEN ar[c.a].n ELSE CHOOSE k \in T : \A j \in T : k <= j

RECURSIVE Segments(_, _, _, _)
Segments(ar, m, c, fuel) ==
  IF fuel = 0 \/ ~IsChunk(ar, c) THEN << >>
  ELSE IF c \in DOMAIN m
  THEN <<[a |-> c.a, lo |-> c.k, hi |-> c.k]>> \o Segments(ar, m, Deref(ar, m, c), fuel - 1)
  ELSE LET t == NextTouched(ar, m, c)
       IN  <<[a |-> c.a, lo |-> c.k, hi |-> t - 1]>>
           \o Segments(ar, m, IF t < ar[c.a].n THEN Chunk(c.a, t) ELSE NULL, fuel - 1)

\* the heads of the allocator: fastbin[0..6] and hs[0..cnt-1]
Heads ==
  { [bin |-> "fastbin", j |-> j, c |-> fastbin[j]] : j \in DOMAIN fastbin }
    \cup { [bin |-> "hs", j |-> j, c |-> hs[j]] : j \in DOMAIN hs }

\* every segment of every free list: [bin, j, n, a, lo, hi] is the n-th
\* segment of the list of head bin[j]
SegRecs(h, s) ==
  { [bin |-> h.bin, j |-> h.j, n |-> n, a |-> s[n].a, lo |-> s[n].lo, hi |-> s[n].hi] :
      n \in 1..Len(s) }

SegsOf(h) == SegRecs(h, Segments(arenas, mem, h.c, MaxWalk))

FreeSegs == UNION { SegsOf(h) : h \in Heads }

PoolArenas == { a \in 1..Len(arenas) : arenas[a].kind = "pool" /\ arenas[a].mapped }

\* how many times chunk c is reachable from the heads, and how many
\* callers hold it
TimesFree(F, c) == Cardinality({ s \in F : s.a = c.a /\ s.lo <= c.k /\ c.k <= s.hi })
TimesHeld(c) == Cardinality({ h \in held : h.c = c })

(***************************************************************************)
(* C2.  Free/allocated partition: in every state of a live allocator,      *)
(* every chunk carved from a class arena is either held by exactly one     *)
(* caller or reachable exactly once from exactly one head among hs and     *)
(* fastbin; never both and never neither.                                  *)
(***************************************************************************)
PartitionedBy(F) ==
  \A a \in PoolArenas : \A k \in 0..(arenas[a].n - 1) :
    TimesFree(F, Chunk(a, k)) + TimesHeld(Chunk(a, k)) = 1

C2_FreeAllocatedPartition == status = "live" => PartitionedBy(FreeSegs)


\* the newest entry of hist, and the entries before it
Last == hist[Len(hist)]
Prev(n) == hist[Len(hist) - n]

(***************************************************************************)
(* C1.  Round-trip reuse: when p = alloc(s) from a size class is followed  *)
(* immediately by release(p) and then by an alloc that selects the same    *)
(* class, the second alloc returns p and maps no new arena.                *)
(***************************************************************************)
C1_RoundTripReuse ==
  ( /\ Len(hist) >= 3
    /\ Prev(2).op = "alloc" /\ Prev(2).i >= 0 /\ Prev(2).c # NULL
    /\ Prev(1).op = "repool" /\ Prev(1).c = Prev(2).c
    /\ Last.op = "alloc" /\ Last.i = Prev(2).i
    /\ Last.via # "fail" )
  => (Last.c = Prev(2).c /\ Last.maps = 0)

(***************************************************************************)
(* C3.  Header truthfulness: for every pointer a caller holds, the header  *)
(* before it equals the byte size of the chunk that backs it (the chunk    *)
(* size of its arena, or the request plus header for a direct mapping).    *)
(***************************************************************************)
C3_HeaderTruthful ==
  status = "live" =>
    \A h \in held :
      /\ Word(arenas, mem, h.c).t = "hdr"
      /\ Word(arenas, mem, h.c).v = arenas[h.c.a].sz

(***************************************************************************)
(* C4.  Release returns a chunk to its own class: a pooled chunk whose     *)
(* header is minPool * 2^c is pushed onto fastbin[c] when c < 7 and onto   *)
(* hs[c] otherwise, c being the index alloc computes for that size; so a   *)
(* pooled chunk is only handed out by allocations of the class it was      *)
(* carved for.                                                             *)
(***************************************************************************)
C4_ReleaseToOwnClass ==
  (Len(hist) >= 1 /\ status = "live") =>
    /\ (Last.op = "repool" /\ Last.via # "munmap" /\ arenas[Last.c.a].kind = "pool") =>
         LET c == DoublingCount(min_pool, Last.size)
         IN  IF c < FASTBIN_SIZE THEN fastbin[c] = Last.c ELSE hs[c] = Last.c
    /\ (Last.op = "alloc" /\ Last.c # NULL /\ arenas[Last.c.a].kind = "pool") =>
         arenas[Last.c.a].sz = Last.size

(***************************************************************************)
(* C5.  Allocated payloads stay inside their chunk: for every pointer      *)
(* held, obtained by alloc(size), the chunk backing it is at least         *)
(* size + 4 bytes long, and no chunk backs two held pointers.              *)
(***************************************************************************)
C5_PayloadInsideChunk ==
  status = "live" =>
    \A h \in held :
      /\ arenas[h.c.a].sz >= h.req + HEADER_SIZE
      /\ TimesHeld(h.c) = 1

(***************************************************************************)
(* C6.  Oversized passthrough: an alloc whose request with header is at    *)
(* least max_pool returns a direct one-off mapping and changes no head     *)
(* and no registry entry; the release of that pointer unmaps exactly that  *)
(* mapping and puts the chunk on no free list.                             *)
(***************************************************************************)
C6_Step ==
  (nops' = nops + 1 /\ status' = "live") =>
    LET e == hist'[Len(hist')]
    IN  /\ (e.op = "alloc" /\ e.sz + HEADER_SIZE >= max_pool /\ e.c # NULL) =>
             /\ e.via = "direct"
             /\ Len(arenas') = Len(arenas) + 1
             /\ e.c = Chunk(Len(arenas'), 0)
             /\ arenas'[e.c.a].kind = "direct"
             /\ hs' = hs /\ fastbin' = fastbin
             /\ heap' = heap /\ ps' = ps /\ sizes' = sizes /\ cnt' = cnt /\ pal' = pal
        /\ (e.op = "repool" /\ arenas[e.c.a].kind = "direct") =>
             /\ e.via = "munmap"
             /\ ~arenas'[e.c.a].mapped
             /\ unmaps' = Append(unmaps, [a |-> e.c.a, k |-> 0, len |-> arenas[e.c.a].len,
                                          by |-> "repool"])
             /\ hs' = hs /\ fastbin' = fastbin

C6_OversizedPassthrough == [][C6_Step]_vars

(***************************************************************************)
(* C9.  The smallest class is usable: an alloc whose request with header   *)
(* is below min_pool (the OS not failing) completes without an assertion   *)
(* failing and returns a chunk of the min_pool class with header min_pool. *)
(***************************************************************************)
C9_SmallestClassUsable ==
  (Len(hist) >= 1 /\ Last.op = "alloc" /\ Last.sz + HEADER_SIZE < min_pool
     /\ Last.via # "fail") =>
    /\ status = "live"
    /\ Last.c # NULL
    /\ Word(arenas, mem, Last.c).v = min_pool
    /\ arenas[Last.c.a].sz = min_pool

(***************************************************************************)
(* C10.  Teardown completeness: mpool_free unmaps every arena recorded in  *)
(* the registry exactly once, each with the length that was mapped for     *)
(* it, and unmaps nothing that is not a registered arena.                  *)
(***************************************************************************)
RegEntry(i) == IF i \in DOMAIN heap[ps].data THEN heap[ps].data[i] ELSE 0
Registered == { RegEntry(i) : i \in 0..(cnt - 1) } \ {0}
FreeCalls == { j \in 1..Len(unmaps) : unmaps[j].by = "free" }

C10_TeardownCompleteness ==
  status = "torn" =>
    /\ \A a \in Registered : Cardinality({ j \in FreeCalls : unmaps[j].a = a }) = 1
    /\ \A j \in FreeCalls : unmaps[j].a \in Registered
    /\ \A j \in FreeCalls :
         unmaps[j].a \in 1..Len(arenas) /\ unmaps[j].len = arenas[unmaps[j].a].len

(***************************************************************************)
(* C11.  Destroy releases all bookkeeping: once mpool_free has returned,   *)
(* the allocator record, the arena-pointer array and the size array (the   *)
(* blocks of mpool_init and every block realloc replaced them by) have     *)
(* all been released; none is still allocated.                             *)
(***************************************************************************)
C11_DestroyReleasesBookkeeping ==
  status = "torn" =>
    /\ ~mpLive
    /\ \A id \in DOMAIN heap : ~heap[id].live

(***************************************************************************)
(* C12.  Registry growth is atomic on failure: when add_pool has to grow   *)
(* the registry and one of its two reallocs fails, mpool_alloc returns     *)
(* NULL and the allocator is exactly as before the call: pal, cnt, both    *)
(* array references, every class head, every free chunk's link and the set *)
(* of mapped arenas are unchanged.                                         *)
(***************************************************************************)
MappedArenas == { a \in 1..Len(arenas) : arenas[a].mapped }

C12_Step ==
  (nops' = nops + 1 /\ hist'[Len(hist')].op = "alloc"
     /\ hist'[Len(hist')].fp \cap {"ps", "sizes"} # {}) =>
    /\ hist'[Len(hist')].c = NULL
    /\ status' = status
    /\ pal' = pal /\ cnt' = cnt
    /\ ps' = ps /\ sizes' = sizes
    /\ hs' = hs /\ fastbin' = fastbin
    /\ mem' = mem
    /\ MappedArenas' = MappedArenas

C12_RegistryGrowthAtomic == [][C12_Step]_vars

(***************************************************************************)
(* C13.  Every mapped arena is registered exactly once: after every        *)
(* mpool_alloc returns, each arena mapped for a size class occupies        *)
(* exactly one slot of ps, with its class size in the same slot of sizes   *)
(* (the lazily created first arena of class c in slot c, every later one   *)
(* in a slot appended after the class slots); and a slot once written      *)
(* keeps its arena and its size until teardown.                            *)
(***************************************************************************)
SizesEntry(j) ==
  IF sizes.id > 0 /\ j \in DOMAIN heap[sizes.id].data THEN heap[sizes.id].data[j] ELSE 0

ClassArenas == { a \in 1..Len(arenas) : arenas[a].kind = "pool" }
SlotsOf(a) == { j \in 0..(cnt - 1) : RegEntry(j) = a }
FirstOfClass(a) == \A b \in ClassArenas : arenas[b].sz = arenas[a].sz => a <= b
ClassCount == cfg[2] - cfg[1] + 1

RegisteredOnce(a) ==
  /\ Cardinality(SlotsOf(a)) = 1
  /\ \A j \in SlotsOf(a) :
       /\ j < heap[ps].cap /\ heap[ps].live
       /\ SizesEntry(j) = arenas[a].sz
       /\ IF FirstOfClass(a) THEN j = DoublingCount(min_pool, arenas[a].sz)
          ELSE j >= ClassCount

AllRegisteredOnce == \A a \in ClassArenas : RegisteredOnce(a)

C13_Step ==
  (nops' = nops + 1 /\ status' = "live") =>
    /\ hist'[Len(hist')].op = "alloc" => AllRegisteredOnce'
    /\ \A j \in 0..(cnt - 1) :
         RegEntry(j) # 0 => (RegEntry(j)' = RegEntry(j) /\ SizesEntry(j)' = SizesEntry(j))

C13_ArenaRegisteredOnce == [][C13_Step]_vars

(***************************************************************************)
(* Runs that consist of successful allocations only, from mpool_init on:   *)
(* no release, no failed OS or libc call, and hist still holds every       *)
(* call.  RankInClass(j) = m when call j is the m-th allocation of its     *)
(* class.                                                                  *)
(***************************************************************************)
OnlyAllocs ==
  /\ status = "live"
  /\ nops = Len(hist)
  /\ \A j \in DOMAIN hist : hist[j].op = "alloc" /\ hist[j].c # NULL /\ hist[j].fp = {}

RankInClass(j) == Cardinality({ k \in 1..j : hist[k].i = hist[j].i })
PerArena(j) == PAGE_SIZE \div hist[j].size
Ind(b) == IF b THEN 1 ELSE 0

(***************************************************************************)
(* C14 as stated.  Arena growth timing: starting from a class with no      *)
(* arena, with N = PAGE_SIZE / class size chunks per arena and no          *)
(* releases, the first N allocations of the class map exactly one arena    *)
(* (the first of them), and the (N+1)-th allocation maps the second.       *)
(***************************************************************************)
C14_GrowthAtNPlusFirst ==
  OnlyAllocs =>
    \A j \in DOMAIN hist :
      (hist[j].i >= 0 /\ RankInClass(j) <= PerArena(j) + 1) =>
        hist[j].maps = Ind(RankInClass(j) = 1) + Ind(RankInClass(j) = PerArena(j) + 1)

(***************************************************************************)
(* C14 as amended.  Starting from a class with no arena, with N =          *)
(* PAGE_SIZE / class size chunks per arena, no releases and no failing OS  *)
(* or libc call: the first allocation of the class maps its first arena,   *)
(* the allocations up to the (N-1)-th map nothing more, and the N-th       *)
(* allocation, which hands out the arena's last chunk, maps the second     *)
(* arena before it returns (with N = 1 the first allocation maps both).    *)
(***************************************************************************)
C14_GrowthAtNth ==
  OnlyAllocs =>
    \A j \in DOMAIN hist :
      (hist[j].i >= 0 /\ RankInClass(j) <= PerArena(j)) =>
        hist[j].maps = Ind(RankInClass(j) = 1) + Ind(RankInClass(j) = PerArena(j))

\* the second allocation of a class of two chunks per arena has mapped the
\* second arena
C14_Witness ==
  /\ OnlyAllocs
  /\ \E j \in DOMAIN hist :
       /\ hist[j].i >= 0 /\ PerArena(j) = 2 /\ RankInClass(j) = 2
       /\ hist[j].maps = 1
       /\ Len(arenas) >= 2

(***************************************************************************)
(* C15.  Class free lists never run dry: once hs[c] is non-NULL it is      *)
(* non-NULL in every later state of the live allocator; and when           *)
(* mpool_alloc takes a chunk from the list of hs[c], the head it leaves    *)
(* is a free chunk of a mapped arena (when the chunk taken was the last    *)
(* one, the first chunk of an arena mapped and linked behind it by the     *)
(* same call).                                                             *)
(***************************************************************************)
FreeChunkOfMappedArena(ar, m, hd, c) ==
  /\ IsChunk(ar, c)
  /\ Word(ar, m, c).t = "link"
  /\ \A h \in hd : h.c # c

C15_Step ==
  (nops' = nops + 1 /\ status' = "live") =>
    /\ \A c \in DOMAIN hs : hs[c] # NULL => hs'[c] # NULL
    /\ (hist'[Len(hist')].op = "alloc" /\ hist'[Len(hist')].via = "pool") =>
         /\ FreeChunkOfMappedArena(arenas', mem', held', hs'[hist'[Len(hist')].i])
         /\ Deref(arenas', mem, hist'[Len(hist')].c) = NULL =>
              /\ hist'[Len(hist')].maps >= 1
              /\ hs'[hist'[Len(hist')].i] = Chunk(Len(arenas'), 0)

C15_FreeListsNeverRunDry == [][C15_Step]_vars

(***************************************************************************)
(* What sizes[j] is stored in: the int of the malloc block, or, once       *)
(* mp->sizes points into a chunk, the first word of the chunk that starts  *)
(* at byte 4 * j from there (bytes of a chunk past its first word are not  *)
(* modelled and read as 0).                                                *)
(***************************************************************************)
SizesCellInChunk(ar, off) ==
  IF off % ar.sz = 0 /\ off \div ar.sz < ar.n
  THEN [t |-> "word", v |-> 0, w |-> Word(arenas, mem, Chunk(sizes.c.a, off \div ar.sz))]
  ELSE [t |-> "int", v |-> 0, w |-> LinkWord(NULL)]

SizesCell(j) ==
  IF sizes.id > 0 THEN [t |-> "int", v |-> SizesEntry(j), w |-> LinkWord(NULL)]
  ELSE SizesCellInChunk(arenas[sizes.c.a], sizes.c.k * arenas[sizes.c.a].sz + 4 * j)

(***************************************************************************)
(* C16.  A fastbin hit has no other effect: when mpool_alloc selects a     *)
(* class index below FASTBIN_SIZE whose fastbin head is non-NULL, it       *)
(* returns the head chunk, sets the head to the chunk's stored link, maps  *)
(* no arena and leaves every hs, every other fastbin head and the          *)
(* registry (entries, cnt, pal) unchanged.                                 *)
(***************************************************************************)
C16_Step ==
  (nops' = nops + 1 /\ hist'[Len(hist')].op = "alloc"
     /\ hist'[Len(hist')].i \in 0..(FASTBIN_SIZE - 1)
     /\ fastbin[hist'[Len(hist')].i] # NULL) =>
    /\ status' = "live"
    /\ hist'[Len(hist')].c = fastbin[hist'[Len(hist')].i]
    /\ fastbin' = [fastbin EXCEPT ![hist'[Len(hist')].i] =
                     Deref(arenas, mem, fastbin[hist'[Len(hist')].i])]
    /\ arenas' = arenas
    /\ hs' = hs
    /\ ps' = ps /\ sizes' = sizes /\ heap' = heap /\ cnt' = cnt /\ pal' = pal
    /\ \A j \in 0..(cnt - 1) : SizesCell(j)' = SizesCell(j)

C16_FastbinHitFrame == [][C16_Step]_vars

(***************************************************************************)
(* C17.  A mapping failure leaves the allocator unchanged: whenever mmap   *)
(* fails inside mpool_alloc (direct mapping, lazy first arena or           *)
(* end-of-arena growth), mpool_alloc returns NULL and every hs, every      *)
(* fastbin head, every free chunk's link and the registry (entries, cnt,   *)
(* pal) are as before the call.                                            *)
(***************************************************************************)
C17_Step ==
  (nops' = nops + 1 /\ hist'[Len(hist')].op = "alloc"
     /\ hist'[Len(hist')].fp \cap {"mmap1", "mmap2"} # {}) =>
    /\ hist'[Len(hist')].c = NULL
    /\ status' = status
    /\ hs' = hs /\ fastbin' = fastbin
    /\ mem' = mem
    /\ ps' = ps /\ sizes' = sizes /\ heap' = heap /\ cnt' = cnt /\ pal' = pal

C17_MappingFailureNoChange == [][C17_Step]_vars

(***************************************************************************)
(* C18.  The fastbin index stays in bounds on release: whenever            *)
(* mpool_repool takes the fastbin path (i < FASTBIN_SIZE), the index it    *)
(* reads and writes fastbin with is within 0..FASTBIN_SIZE-1, and the      *)
(* release leaves the neighbouring field mp->sizes alone.                  *)
(***************************************************************************)
C18_FastbinIndexInBounds ==
  (Len(hist) >= 1 /\ Last.op = "repool" /\ Last.via \in {"fastbin", "neg"}) =>
    /\ Last.i \in 0..(FASTBIN_SIZE - 1)
    /\ status = "live"
    /\ sizes.id > 0

(***************************************************************************)
(* C19.  Registry capacity invariant: mpool_init sets pal to the smallest  *)
(* power of two >= the class count and cnt to the class count; in every    *)
(* reachable state cnt <= pal and pal is a power of two >= the class       *)
(* count; pal changes only by doubling, exactly when an arena is           *)
(* registered while cnt equals pal, and never shrinks.                     *)
(***************************************************************************)
PowersOfTwo == { Pow2(k) : k \in 0..20 }
CeilPow2(n) == CHOOSE p \in PowersOfTwo : p >= n /\ \A q \in PowersOfTwo : q >= n => p <= q

C19_Step ==
  status' = "live" =>
    /\ pal' # pal => (pal' = 2 * pal /\ cnt = pal /\ cnt' = cnt + 1)
    /\ (cnt' = cnt + 1 /\ cnt = pal) => pal' = 2 * pal
    /\ cnt' # cnt => cnt' = cnt + 1

C19_RegistryCapacity ==
  /\ pal = CeilPow2(ClassCount) /\ cnt = ClassCount
  /\ [](cnt <= pal /\ pal \in PowersOfTwo /\ pal >= ClassCount)
  /\ [][C19_Step]_vars

====
